---- MODULE Spec2Model ----
(***************************************************************************)
(* CSV_test_SOMANET_v42.c: a SOEM master that drives one SOMANET servo in  *)
(* cyclic-synchronous-velocity mode.  Two threads share a handful of       *)
(* globals: simpletest (the control thread: configuration, the wait for    *)
(* the operational state, the cyclic loop with the drive state machine,    *)
(* shutdown) and ecatcheck (the supervisor thread that sweeps the slave    *)
(* table).  The SOEM stack itself is outside the program; its calls are    *)
(* modelled by what they read from the bus and by the result they return,  *)
(* both inputs of the step that makes the call.                            *)
(***************************************************************************)
EXTENDS Integers, Sequences, FiniteSets, TLC

\* ------------------------------------------------------------- bounds
\* iterations of the cyclic loop (10000 in the source, line 133)
MaxCycles == 4
\* largest number of slaves ec_config_init may find
MaxSlaves == 2
\* ec_group[0].outputsWKC and .inputsWKC as left by ec_config_map
OutputsWKC == 2
InputsWKC == 3

\* ------------------------------------------------- program constants
\* chk = 200, line 110
ChkInit == 200
\* out_somanet_1->OpMode = 9, line 156
OpModeCSV == 9
\* out_somanet_1->TargetVelocity = 100, line 176
NominalVelocity == 100
\* uint8 currentgroup = 0, line 26
currentgroup == 0

\* ec_state values of ethercat.h, as the source uses them
EC_STATE_NONE == 0
EC_STATE_INIT == 1
EC_STATE_PRE_OP == 2
EC_STATE_SAFE_OP == 4
EC_STATE_OPERATIONAL == 8
EC_STATE_ERROR == 16
EC_STATE_ACK == 16

\* ------------------------------------------------------------ helpers
RECURSIVE BitAnd(_, _)
\* C's & on two non-negative ints
BitAnd(a, b) ==
    IF a = 0 \/ b = 0 THEN 0
    ELSE (a % 2) * (b % 2) + 2 * BitAnd(a \div 2, b \div 2)

RECURSIVE FromBits(_)
\* the value of a binary literal 0b..., most significant digit first
FromBits(ds) ==
    IF ds = <<>> THEN 0
    ELSE 2 * FromBits(SubSeq(ds, 1, Len(ds) - 1)) + ds[Len(ds)]

Min(S) == CHOOSE x \in S : \A y \in S : x <= y

\* the (mask, pattern) literals of lines 159-175
MaskFault == FromBits(<<0,0,0,0,0,0,0,0,0,1,0,0,1,1,1,1>>)
PatFault == FromBits(<<0,0,0,0,0,0,0,0,0,0,0,0,1,0,0,0>>)
MaskSwitchOnDisabled == FromBits(<<0,0,0,0,0,0,0,0,0,1,0,0,1,1,1,1>>)
PatSwitchOnDisabled == FromBits(<<0,0,0,0,0,0,0,0,0,1,0,0,0,0,0,0>>)
MaskReadyToSwitchOn == FromBits(<<0,0,0,0,0,0,0,0,0,1,1,0,1,1,1,1>>)
PatReadyToSwitchOn == FromBits(<<0,0,0,0,0,0,0,0,0,0,1,0,0,0,0,1>>)
MaskSwitchedOn == FromBits(<<0,0,0,0,0,0,0,0,0,1,1,0,1,1,1,1>>)
\* mutant: the pattern of the line above, repeated (0b...00100001)
PatSwitchedOnAsReady == FromBits(<<0,0,0,0,0,0,0,0,0,0,1,0,0,0,0,1>>)
PatSwitchedOn == FromBits(<<0,0,0,0,0,0,0,0,0,0,1,0,0,0,1,1>>)
MaskOperationEnabled == FromBits(<<0,0,0,0,0,0,0,0,0,1,1,0,1,1,1,1>>)
PatOperationEnabled == FromBits(<<0,0,0,0,0,0,0,0,0,0,1,0,0,1,1,1>>)
CwFaultReset == FromBits(<<1,0,0,0,0,0,0,0>>)
CwShutdown == FromBits(<<0,0,0,0,0,1,1,0>>)
CwSwitchOn == FromBits(<<0,0,0,0,0,1,1,1>>)
CwEnableOperation == FromBits(<<0,0,0,0,1,1,1,1>>)

\* ---------------------------------------------------------- variables
VARIABLES
    \* simpletest: position and locals
    pc, i, j, chk,
    \* globals of lines 22-25
    expectedWKC, needlf, wkc, inOP,
    \* process-data images: in_somanet_1->Statusword and *out_somanet_1
    Statusword, out_somanet_1,
    \* the stack's tables: ec_slavecount, ec_slave[k].state, ec_slave[k].islost,
    \* ec_slave[k].group, ec_group[currentgroup].docheckstate
    ec_slavecount, ec_state, islost, group, docheckstate,
    \* ecatcheck: position and local
    spc, slave,
    \* the bus: the AL state of each device as the stack last read it
    link,
    \* observation: whether ec_close has run, the loop-body count of the
    \* operational wait, the printed status lines, what simpletest did after
    \* the wait, the stack calls and the DriveCommand fields written by the
    \* latest step of each thread, "all resumed" lines of the latest sweep
    closed, attempts, lines, ctl_log, sup_calls, wr, resumed,
    \* history of the table at the end of the last two sweeps
    hist

progVars == <<pc, i, j, chk, expectedWKC, needlf, wkc, inOP, Statusword,
              out_somanet_1, ec_slavecount, ec_state, islost, group,
              docheckstate, spc, slave, link, closed, attempts, lines,
              ctl_log, sup_calls, wr, resumed>>
vars == <<progVars, hist>>

ctlLocals == <<pc, i, j, chk, attempts, lines, ctl_log, wr>>
supLocals == <<spc, slave, sup_calls, resumed>>
tableVars == <<ec_slavecount, ec_state, islost, group, docheckstate>>

\* ------------------------------------------------------------ domains
Slaves == 1..MaxSlaves
\* AL states a device can report: none, pre-op, safe-op, operational,
\* safe-op + error, operational + error
LinkStates == {EC_STATE_NONE, EC_STATE_PRE_OP, EC_STATE_SAFE_OP,
               EC_STATE_OPERATIONAL, EC_STATE_SAFE_OP + EC_STATE_ERROR,
               EC_STATE_OPERATIONAL + EC_STATE_ERROR}

\* typedef out_somanet_42t, lines 54-69; the IOmap is zero-initialised
ZeroCommand ==
    [Controlword |-> 0, OpMode |-> 0, TargetTorque |-> 0, TargetPosition |-> 0,
     TargetVelocity |-> 0, TorqueOffset |-> 0, TuningCommand |-> 0,
     DigitalOutput1 |-> 0, DigitalOutput2 |-> 0, DigitalOutput3 |-> 0,
     DigitalOutput4 |-> 0, UserMOSI |-> 0, VelocityOffset |-> 0]

\* ---------------------------------------------------- the SOEM stack
\* the group state a broadcast read reports: the lowest state on the bus
LowestState(lk, n) ==
    IF n = 0 THEN EC_STATE_NONE ELSE Min({lk[s] : s \in 1..n})

\* ec_readstate(): every ec_slave[k].state is refreshed from the bus
ec_readstate(tab, lk, n) ==
    [k \in DOMAIN tab |->
        IF k = 0 THEN LowestState(lk, n)
        ELSE IF k <= n THEN lk[k] ELSE tab[k]]

\* ec_statecheck(k, ...): ec_slave[k].state becomes v, the state read for k
ec_statecheck(tab, k, v) == [tab EXCEPT ![k] = v]

\* mutant: "switched on" is answered with switch on (0b00000111) again
DriveStateMachineNoEnable(sw, cmd) ==
    IF BitAnd(sw, MaskFault) = PatFault
    THEN [cmd |-> [cmd EXCEPT !.Controlword = CwFaultReset],
          wr |-> {"Controlword"}]
    ELSE IF BitAnd(sw, MaskSwitchOnDisabled) = PatSwitchOnDisabled
    THEN [cmd |-> [cmd EXCEPT !.Controlword = CwShutdown],
          wr |-> {"Controlword"}]
    ELSE IF BitAnd(sw, MaskReadyToSwitchOn) = PatReadyToSwitchOn
    THEN [cmd |-> [cmd EXCEPT !.Controlword = CwSwitchOn],
          wr |-> {"Controlword"}]
    ELSE IF BitAnd(sw, MaskSwitchedOn) = PatSwitchedOn
    THEN [cmd |-> [cmd EXCEPT !.Controlword = CwSwitchOn],
          wr |-> {"Controlword"}]
    ELSE IF BitAnd(sw, MaskOperationEnabled) = PatOperationEnabled
    THEN [cmd |-> [cmd EXCEPT !.TargetVelocity = NominalVelocity],
          wr |-> {"TargetVelocity"}]
    ELSE [cmd |-> cmd, wr |-> {}]

\* mutant: the ready-to-switch-on test uses the mask of the two tests above
\* it (0b...01001111), which hides bit 5 of the pattern
DriveStateMachineWrongMask(sw, cmd) ==
    IF BitAnd(sw, MaskFault) = PatFault
    THEN [cmd |-> [cmd EXCEPT !.Controlword = CwFaultReset],
          wr |-> {"Controlword"}]
    ELSE IF BitAnd(sw, MaskSwitchOnDisabled) = PatSwitchOnDisabled
    THEN [cmd |-> [cmd EXCEPT !.Controlword = CwShutdown],
          wr |-> {"Controlword"}]
    ELSE IF BitAnd(sw, MaskSwitchOnDisabled) = PatReadyToSwitchOn
    THEN [cmd |-> [cmd EXCEPT !.Controlword = CwSwitchOn],
          wr |-> {"Controlword"}]
    ELSE IF BitAnd(sw, MaskSwitchedOn) = PatSwitchedOn
    THEN [cmd |-> [cmd EXCEPT !.Controlword = CwEnableOperation],
          wr |-> {"Controlword"}]
    ELSE IF BitAnd(sw, MaskOperationEnabled) = PatOperationEnabled
    THEN [cmd |-> [cmd EXCEPT !.TargetVelocity = NominalVelocity],
          wr |-> {"TargetVelocity"}]
    ELSE [cmd |-> cmd, wr |-> {}]

\* --------------------------------------------- drive state machine
\* The if / else-if chain of lines 159-176 on the status word sw: the
\* command after it, and the fields it assigned.
DriveStateMachine(sw, cmd) ==
    IF BitAnd(sw, MaskFault) = PatFault
    THEN [cmd |-> [cmd EXCEPT !.Controlword = CwFaultReset],
          wr |-> {"Controlword"}]
    ELSE IF BitAnd(sw, MaskSwitchOnDisabled) = PatSwitchOnDisabled
    THEN [cmd |-> [cmd EXCEPT !.Controlword = CwShutdown],
          wr |-> {"Controlword"}]
    ELSE IF BitAnd(sw, MaskReadyToSwitchOn) = PatReadyToSwitchOn
    THEN [cmd |-> [cmd EXCEPT !.Controlword = CwSwitchOn],
          wr |-> {"Controlword"}]
    ELSE IF BitAnd(sw, MaskSwitchedOn) = PatSwitchedOn
    THEN [cmd |-> [cmd EXCEPT !.Controlword = CwEnableOperation],
          wr |-> {"Controlword"}]
    ELSE IF BitAnd(sw, MaskOperationEnabled) = PatOperationEnabled
    THEN [cmd |-> [cmd EXCEPT !.TargetVelocity = NominalVelocity],
          wr |-> {"TargetVelocity"}]
    ELSE [cmd |-> cmd, wr |-> {}]

\* mutant: the mode is set on every accepted cycle (j >= 1)
SetOpModeEveryCycle(jn, cmd) ==
    IF jn >= 1
    THEN [cmd |-> [cmd EXCEPT !.OpMode = OpModeCSV], wr |-> {"OpMode"}]
    ELSE [cmd |-> cmd, wr |-> {}]

\* line 156: if (j == 1) out_somanet_1->OpMode = 9, with j already incremented
SetOpMode(jn, cmd) ==
    IF jn = 1
    THEN [cmd |-> [cmd EXCEPT !.OpMode = OpModeCSV], wr |-> {"OpMode"}]
    ELSE [cmd |-> cmd, wr |-> {}]

\* mutant: a cycle is accepted only above the expected counter (>)
AcceptedStrict(w, e) == w > e

\* line 138: if (wkc >= expectedWKC)
Accepted(w, e) == w >= e

\* mutant: the test pre-decrements (--chk)
WaitAgainPreDecrement(c, st) == (c - 1) # 0 /\ st # EC_STATE_OPERATIONAL

\* line 118: while (chk-- && (ec_slave[0].state != EC_STATE_OPERATIONAL)),
\* on the value chk has before the decrement
WaitAgain(c, st) == c # 0 /\ st # EC_STATE_OPERATIONAL

\* mutant: the condition forgets inOP
WakeConditionNoInOP(op, w, e, d) == (w < e) \/ d

\* line 237: if (inOP && ((wkc < expectedWKC) || docheckstate))
WakeCondition(op, w, e, d) == op /\ ((w < e) \/ d)

\* mutant: the reconfigure branch is bounded above by safe-op + error
SlaveBranchBelowError(st, lost) ==
    IF st = EC_STATE_SAFE_OP + EC_STATE_ERROR THEN "ack"
    ELSE IF st = EC_STATE_SAFE_OP THEN "promote"
    ELSE IF st > EC_STATE_NONE /\ st < EC_STATE_SAFE_OP + EC_STATE_ERROR
    THEN "reconfig"
    ELSE IF ~lost THEN "recheck"
    ELSE "skip"

\* the branch the chain of lines 252-272 takes for a slave that is in the
\* current group and not operational
SlaveBranch(st, lost) ==
    IF st = EC_STATE_SAFE_OP + EC_STATE_ERROR THEN "ack"
    ELSE IF st = EC_STATE_SAFE_OP THEN "promote"
    ELSE IF st > EC_STATE_NONE THEN "reconfig"
    ELSE IF ~lost THEN "recheck"
    ELSE "skip"

\* bus readings with n devices configured, each in a state of L
BusStates(n, L) ==
    {lk \in [Slaves -> L] : \A s \in Slaves : s > n => lk[s] = EC_STATE_NONE}

\* ------------------------------------------------- simpletest (control)
\* lines 75-81: the flags are cleared and ec_init binds the socket, or not
ct_start ==
    /\ pc = "start"
    /\ needlf' = FALSE
    /\ inOP' = FALSE
    /\ \E ok \in BOOLEAN : pc' = IF ok THEN "config" ELSE "end"
    /\ wr' = {}
    /\ UNCHANGED <<i, j, chk, expectedWKC, wkc, Statusword, out_somanet_1,
                   tableVars, supLocals, link, closed, attempts, lines,
                   ctl_log>>

\* lines 87-97: ec_config_init finds n slaves; ec_config_map, ec_configdc
\* and the safe-op state check fill the slave table from the bus
ct_config(n, lk) ==
    /\ pc = "config"
    /\ IF n > 0
       THEN /\ ec_slavecount' = n
            /\ link' = lk
            /\ ec_state' = ec_readstate(ec_state, lk, n)
            /\ pc' = "request_op"
       ELSE /\ pc' = "close"
            /\ UNCHANGED <<ec_slavecount, ec_state, link>>
    /\ wr' = {}
    /\ UNCHANGED <<i, j, chk, expectedWKC, needlf, wkc, inOP, Statusword,
                   out_somanet_1, islost, group, docheckstate, supLocals,
                   closed, attempts, lines, ctl_log>>

\* mutant: the outputs are counted once (outputsWKC + inputsWKC)
ct_request_op_single ==
    /\ pc = "request_op"
    /\ expectedWKC' = OutputsWKC + InputsWKC
    /\ ec_state' = [ec_state EXCEPT ![0] = EC_STATE_OPERATIONAL]
    /\ chk' = ChkInit
    /\ pc' = "wait"
    /\ wr' = {}
    /\ UNCHANGED <<i, j, needlf, wkc, inOP, Statusword, out_somanet_1,
                   ec_slavecount, islost, group, docheckstate, supLocals,
                   link, closed, attempts, lines, ctl_log>>

\* lines 99-110: the expected working counter, the request of the
\* operational state through entry 0 of the table, one exchange, chk = 200
ct_request_op ==
    /\ pc = "request_op"
    /\ expectedWKC' = (OutputsWKC * 2) + InputsWKC
    /\ ec_state' = [ec_state EXCEPT ![0] = EC_STATE_OPERATIONAL]
    /\ chk' = ChkInit
    /\ pc' = "wait"
    /\ wr' = {}
    /\ UNCHANGED <<i, j, needlf, wkc, inOP, Statusword, out_somanet_1,
                   ec_slavecount, islost, group, docheckstate, supLocals,
                   link, closed, attempts, lines, ctl_log>>

\* lines 112-118: one pass of the do-while: exchange, state check of the
\* group (it reads g), then the test with its post-decrement
ct_wait(g) ==
    /\ pc = "wait"
    /\ ec_state' = ec_statecheck(ec_state, 0, g)
    /\ attempts' = attempts + 1
    /\ chk' = chk - 1
    /\ pc' = IF WaitAgain(chk, ec_state'[0]) THEN "wait" ELSE "op_check"
    /\ wr' = {}
    /\ UNCHANGED <<i, j, expectedWKC, needlf, wkc, inOP, Statusword,
                   out_somanet_1, ec_slavecount, islost, group, docheckstate,
                   supLocals, link, closed, lines, ctl_log>>

\* lines 119-130 and 198-201: operational: inOP is set and the cyclic loop
\* starts with j = 0, i = 1; otherwise the states are read for the
\* diagnostics.  chk and the pass count are dead from here on.
ct_op_check(lk) ==
    /\ pc = "op_check"
    /\ IF ec_state[0] = EC_STATE_OPERATIONAL
       THEN /\ inOP' = TRUE
            /\ j' = 0
            /\ pc' = "cyclic"
            /\ UNCHANGED <<ec_state, link, ctl_log>>
       ELSE /\ link' = lk
            /\ ec_state' = ec_readstate(ec_state, lk, ec_slavecount)
            /\ ctl_log' = Append(ctl_log, <<"ec_readstate", 0>>)
            /\ pc' = "diag"
            /\ UNCHANGED <<inOP, j>>
    /\ i' = 1
    /\ chk' = 0
    /\ attempts' = 0
    /\ wr' = {}
    /\ UNCHANGED <<expectedWKC, needlf, wkc, Statusword, out_somanet_1,
                   ec_slavecount, islost, group, docheckstate, supLocals,
                   closed, lines>>

\* lines 133-136: the loop test, then send and receive: the working
\* counter w is stored and the input image holds the status word sw
ct_exchange(w, sw) ==
    /\ pc = "cyclic"
    /\ i <= MaxCycles
    /\ wkc' = w
    /\ Statusword' = sw
    /\ pc' = "process"
    /\ wr' = {}
    /\ UNCHANGED <<i, j, chk, expectedWKC, needlf, inOP, out_somanet_1,
                   tableVars, supLocals, link, closed, attempts, lines,
                   ctl_log>>

\* mutant: the rules hang on an else of the if of line 156, so the first
\* accepted cycle only sets the mode
ct_process_rules_after_first ==
    /\ pc = "process"
    /\ IF Accepted(wkc, expectedWKC)
       THEN LET m == SetOpMode(j + 1, out_somanet_1)
                d == IF j + 1 = 1 THEN [cmd |-> m.cmd, wr |-> {}]
                     ELSE DriveStateMachine(Statusword, m.cmd)
            IN /\ j' = j + 1
               /\ out_somanet_1' = d.cmd
               /\ wr' = m.wr \cup d.wr
               /\ lines' = lines + 1
               /\ needlf' = TRUE
       ELSE /\ wr' = {}
            /\ UNCHANGED <<j, out_somanet_1, lines, needlf>>
    /\ i' = i + 1
    /\ pc' = "cyclic"
    /\ UNCHANGED <<chk, expectedWKC, wkc, inOP, Statusword, tableVars,
                   supLocals, link, closed, attempts, ctl_log>>

\* lines 138-194 and i++: an accepted cycle counts, sets the mode on the
\* first one, runs the state machine and prints; a degraded one only sleeps
ct_process ==
    /\ pc = "process"
    /\ IF Accepted(wkc, expectedWKC)
       THEN LET m == SetOpMode(j + 1, out_somanet_1)
                d == DriveStateMachine(Statusword, m.cmd)
            IN /\ j' = j + 1
               /\ out_somanet_1' = d.cmd
               /\ wr' = m.wr \cup d.wr
               /\ lines' = lines + 1
               /\ needlf' = TRUE
       ELSE /\ wr' = {}
            /\ UNCHANGED <<j, out_somanet_1, lines, needlf>>
    /\ i' = i + 1
    /\ pc' = "cyclic"
    /\ UNCHANGED <<chk, expectedWKC, wkc, inOP, Statusword, tableVars,
                   supLocals, link, closed, attempts, ctl_log>>

\* mutant: the loop also ends on a degraded cycle (a break when wkc is short)
ct_loop_exit_on_degraded ==
    /\ pc = "cyclic"
    /\ i > MaxCycles \/ (i > 1 /\ wkc < expectedWKC)
    /\ inOP' = FALSE
    /\ pc' = "request_init"
    /\ wr' = {}
    /\ UNCHANGED <<i, j, chk, expectedWKC, needlf, wkc, Statusword,
                   out_somanet_1, tableVars, supLocals, link, closed,
                   attempts, lines, ctl_log>>

\* lines 133 and 196: the loop is over, inOP is cleared
ct_loop_exit ==
    /\ pc = "cyclic"
    /\ i > MaxCycles
    /\ inOP' = FALSE
    /\ pc' = "request_init"
    /\ wr' = {}
    /\ UNCHANGED <<i, j, chk, expectedWKC, needlf, wkc, Statusword,
                   out_somanet_1, tableVars, supLocals, link, closed,
                   attempts, lines, ctl_log>>

\* mutant: the diagnostics loop stops one slave early (i < ec_slavecount)
ct_diag_short ==
    /\ pc = "diag"
    /\ IF i < ec_slavecount
       THEN /\ ctl_log' = IF ec_state[i] # EC_STATE_OPERATIONAL
                          THEN Append(ctl_log, <<"printf_slave", i>>)
                          ELSE ctl_log
            /\ i' = i + 1
            /\ pc' = "diag"
       ELSE /\ pc' = "request_init"
            /\ UNCHANGED <<i, ctl_log>>
    /\ wr' = {}
    /\ UNCHANGED <<j, chk, expectedWKC, needlf, wkc, inOP, Statusword,
                   out_somanet_1, tableVars, supLocals, link, closed,
                   attempts, lines>>

\* lines 202-209: one pass of the diagnostics loop, or its exit
ct_diag ==
    /\ pc = "diag"
    /\ IF i <= ec_slavecount
       THEN /\ ctl_log' = IF ec_state[i] # EC_STATE_OPERATIONAL
                          THEN Append(ctl_log, <<"printf_slave", i>>)
                          ELSE ctl_log
            /\ i' = i + 1
            /\ pc' = "diag"
       ELSE /\ pc' = "request_init"
            /\ UNCHANGED <<i, ctl_log>>
    /\ wr' = {}
    /\ UNCHANGED <<j, chk, expectedWKC, needlf, wkc, inOP, Statusword,
                   out_somanet_1, tableVars, supLocals, link, closed,
                   attempts, lines>>

\* mutant: the init state is written into every entry of the table
ct_request_init_all ==
    /\ pc = "request_init"
    /\ ec_state' = [k \in DOMAIN ec_state |-> EC_STATE_INIT]
    /\ ctl_log' = Append(ctl_log, <<"ec_writestate", 0>>)
    /\ pc' = "close"
    /\ wr' = {}
    /\ UNCHANGED <<i, j, chk, expectedWKC, needlf, wkc, inOP, Statusword,
                   out_somanet_1, ec_slavecount, islost, group, docheckstate,
                   supLocals, link, closed, attempts, lines>>

\* lines 211-214: the init state is requested through entry 0
ct_request_init ==
    /\ pc = "request_init"
    /\ ec_state' = [ec_state EXCEPT ![0] = EC_STATE_INIT]
    /\ ctl_log' = Append(ctl_log, <<"ec_writestate", 0>>)
    /\ pc' = "close"
    /\ wr' = {}
    /\ UNCHANGED <<i, j, chk, expectedWKC, needlf, wkc, inOP, Statusword,
                   out_somanet_1, ec_slavecount, islost, group, docheckstate,
                   supLocals, link, closed, attempts, lines>>

\* lines 220-222: ec_close
ct_close ==
    /\ pc = "close"
    /\ closed' = TRUE
    /\ ctl_log' = Append(ctl_log, <<"ec_close", 0>>)
    /\ pc' = "end"
    /\ wr' = {}
    /\ UNCHANGED <<i, j, chk, expectedWKC, needlf, wkc, inOP, Statusword,
                   out_somanet_1, tableVars, supLocals, link, attempts, lines>>

\* lines 324-325: main returns and the process, ecatcheck included, ends
main_return ==
    /\ pc = "end"
    /\ pc' = "exited"
    /\ wr' = {}
    /\ UNCHANGED <<i, j, chk, expectedWKC, needlf, wkc, inOP, Statusword,
                   out_somanet_1, tableVars, supLocals, link, closed,
                   attempts, lines, ctl_log>>

\* ------------------------------------------------ ecatcheck (supervisor)
\* lines 235-237 and 303: the condition of one pass of while(1); when it is
\* false the pass only sleeps and the next one begins
ecatcheck_cond ==
    /\ pc # "exited"
    /\ spc = "check"
    /\ spc' = IF WakeCondition(inOP, wkc, expectedWKC, docheckstate)
              THEN "sweep" ELSE "check"
    /\ sup_calls' = <<>>
    /\ UNCHANGED <<ctlLocals, expectedWKC, needlf, wkc, inOP, Statusword,
                   out_somanet_1, tableVars, slave, resumed, link, closed>>

\* mutant: the sweep also clears the control word of the drive
ecatcheck_begin_clears_cw(lk) ==
    /\ pc # "exited"
    /\ spc = "sweep"
    /\ needlf' = FALSE
    /\ docheckstate' = FALSE
    /\ link' = lk
    /\ ec_state' = ec_readstate(ec_state, lk, ec_slavecount)
    /\ out_somanet_1' = [out_somanet_1 EXCEPT !.Controlword = 0, !.TargetVelocity = 0]
    /\ slave' = 1
    /\ resumed' = 0
    /\ sup_calls' = << <<"ec_readstate", 0, TRUE>> >>
    /\ spc' = "slave"
    /\ UNCHANGED <<ctlLocals, expectedWKC, wkc, inOP, Statusword,
                   ec_slavecount, islost, group, closed>>

\* mutant: line 245 is missing: docheckstate is not cleared before the loop
ecatcheck_begin_keeps_flag(lk) ==
    /\ pc # "exited"
    /\ spc = "sweep"
    /\ needlf' = FALSE
    /\ link' = lk
    /\ ec_state' = ec_readstate(ec_state, lk, ec_slavecount)
    /\ slave' = 1
    /\ resumed' = 0
    /\ sup_calls' = << <<"ec_readstate", 0, TRUE>> >>
    /\ spc' = "slave"
    /\ UNCHANGED <<ctlLocals, expectedWKC, wkc, inOP, Statusword,
                   out_somanet_1, ec_slavecount, islost, group, closed,
                   docheckstate>>

\* lines 239-247: the line feed, docheckstate cleared, ec_readstate, slave = 1
ecatcheck_begin(lk) ==
    /\ pc # "exited"
    /\ spc = "sweep"
    /\ needlf' = FALSE
    /\ docheckstate' = FALSE
    /\ link' = lk
    /\ ec_state' = ec_readstate(ec_state, lk, ec_slavecount)
    /\ slave' = 1
    /\ resumed' = 0
    /\ sup_calls' = << <<"ec_readstate", 0, TRUE>> >>
    /\ spc' = "slave"
    /\ UNCHANGED <<ctlLocals, expectedWKC, wkc, inOP, Statusword,
                   out_somanet_1, ec_slavecount, islost, group, closed>>

\* mutant: line 251 is missing: a slave that is not operational does not
\* set docheckstate again
ecatcheck_slave_no_flag(v, ok) ==
    /\ pc # "exited"
    /\ spc = "slave"
    /\ slave <= ec_slavecount
    /\ IF group[slave] = currentgroup /\ ec_state[slave] # EC_STATE_OPERATIONAL
       THEN /\ docheckstate' = docheckstate
            /\ LET br == SlaveBranch(ec_state[slave], islost[slave])
               IN CASE br = "ack" ->
                        /\ ec_state' = [ec_state EXCEPT
                                          ![slave] = EC_STATE_SAFE_OP + EC_STATE_ACK]
                        /\ sup_calls' = << <<"ec_writestate", slave, TRUE>> >>
                        /\ UNCHANGED <<islost, link>>
                    [] br = "promote" ->
                        /\ ec_state' = [ec_state EXCEPT
                                          ![slave] = EC_STATE_OPERATIONAL]
                        /\ sup_calls' = << <<"ec_writestate", slave, TRUE>> >>
                        /\ UNCHANGED <<islost, link>>
                    [] br = "reconfig" ->
                        /\ islost' = IF ok THEN [islost EXCEPT ![slave] = FALSE]
                                     ELSE islost
                        /\ sup_calls' = << <<"ec_reconfig_slave", slave, ok>> >>
                        /\ UNCHANGED <<ec_state, link>>
                    [] br = "recheck" ->
                        /\ link' = [link EXCEPT ![slave] = v]
                        /\ ec_state' = ec_statecheck(ec_state, slave, v)
                        /\ islost' = IF ec_state'[slave] = EC_STATE_NONE
                                     THEN [islost EXCEPT ![slave] = TRUE]
                                     ELSE islost
                        /\ sup_calls' = << <<"ec_statecheck", slave, TRUE>> >>
                    [] OTHER ->
                        /\ sup_calls' = <<>>
                        /\ UNCHANGED <<ec_state, islost, link>>
       ELSE /\ sup_calls' = <<>>
            /\ UNCHANGED <<docheckstate, ec_state, islost, link>>
    /\ spc' = "lost"
    /\ UNCHANGED <<ctlLocals, expectedWKC, needlf, wkc, inOP, Statusword,
                   out_somanet_1, ec_slavecount, group, slave, resumed, closed>>

\* lines 247-282: the loop test and the first if of the body for one slave;
\* v is what the re-check of line 275 reads, ok the result of the reconfigure
ecatcheck_slave(v, ok) ==
    /\ pc # "exited"
    /\ spc = "slave"
    /\ slave <= ec_slavecount
    /\ IF group[slave] = currentgroup /\ ec_state[slave] # EC_STATE_OPERATIONAL
       THEN /\ docheckstate' = TRUE
            /\ LET br == SlaveBranch(ec_state[slave], islost[slave])
               IN CASE br = "ack" ->
                        /\ ec_state' = [ec_state EXCEPT
                                          ![slave] = EC_STATE_SAFE_OP + EC_STATE_ACK]
                        /\ sup_calls' = << <<"ec_writestate", slave, TRUE>> >>
                        /\ UNCHANGED <<islost, link>>
                    [] br = "promote" ->
                        /\ ec_state' = [ec_state EXCEPT
                                          ![slave] = EC_STATE_OPERATIONAL]
                        /\ sup_calls' = << <<"ec_writestate", slave, TRUE>> >>
                        /\ UNCHANGED <<islost, link>>
                    [] br = "reconfig" ->
                        /\ islost' = IF ok THEN [islost EXCEPT ![slave] = FALSE]
                                     ELSE islost
                        /\ sup_calls' = << <<"ec_reconfig_slave", slave, ok>> >>
                        /\ UNCHANGED <<ec_state, link>>
                    [] br = "recheck" ->
                        /\ link' = [link EXCEPT ![slave] = v]
                        /\ ec_state' = ec_statecheck(ec_state, slave, v)
                        /\ islost' = IF ec_state'[slave] = EC_STATE_NONE
                                     THEN [islost EXCEPT ![slave] = TRUE]
                                     ELSE islost
                        /\ sup_calls' = << <<"ec_statecheck", slave, TRUE>> >>
                    [] OTHER ->
                        /\ sup_calls' = <<>>
                        /\ UNCHANGED <<ec_state, islost, link>>
       ELSE /\ sup_calls' = <<>>
            /\ UNCHANGED <<docheckstate, ec_state, islost, link>>
    /\ spc' = "lost"
    /\ UNCHANGED <<ctlLocals, expectedWKC, needlf, wkc, inOP, Statusword,
                   out_somanet_1, ec_slavecount, group, slave, resumed, closed>>

\* mutant: a slave marked lost by the re-check of this pass is left for the
\* next sweep
ecatcheck_lost_deferred(ok) ==
    /\ pc # "exited"
    /\ spc = "lost"
    /\ IF islost[slave] /\ sup_calls # << <<"ec_statecheck", slave, TRUE>> >>
       THEN IF ec_state[slave] = EC_STATE_NONE
            THEN /\ islost' = IF ok THEN [islost EXCEPT ![slave] = FALSE]
                              ELSE islost
                 /\ sup_calls' = << <<"ec_recover_slave", slave, ok>> >>
            ELSE /\ islost' = [islost EXCEPT ![slave] = FALSE]
                 /\ sup_calls' = <<>>
       ELSE /\ sup_calls' = <<>>
            /\ UNCHANGED islost
    /\ slave' = slave + 1
    /\ spc' = "slave"
    /\ UNCHANGED <<ctlLocals, expectedWKC, needlf, wkc, inOP, Statusword,
                   out_somanet_1, ec_slavecount, ec_state, group,
                   docheckstate, resumed, link, closed>>

\* mutant: the else of line 293 is missing: a lost slave that reappeared
\* stays marked
ecatcheck_lost_no_found(ok) ==
    /\ pc # "exited"
    /\ spc = "lost"
    /\ IF islost[slave] /\ ec_state[slave] = EC_STATE_NONE
       THEN /\ islost' = IF ok THEN [islost EXCEPT ![slave] = FALSE]
                         ELSE islost
            /\ sup_calls' = << <<"ec_recover_slave", slave, ok>> >>
       ELSE /\ sup_calls' = <<>>
            /\ UNCHANGED islost
    /\ slave' = slave + 1
    /\ spc' = "slave"
    /\ UNCHANGED <<ctlLocals, expectedWKC, needlf, wkc, inOP, Statusword,
                   out_somanet_1, ec_slavecount, ec_state, group,
                   docheckstate, resumed, link, closed>>

\* lines 283-298 and slave++: the second if of the body; ok is the result
\* of the recover
ecatcheck_lost(ok) ==
    /\ pc # "exited"
    /\ spc = "lost"
    /\ IF islost[slave]
       THEN IF ec_state[slave] = EC_STATE_NONE
            THEN /\ islost' = IF ok THEN [islost EXCEPT ![slave] = FALSE]
                              ELSE islost
                 /\ sup_calls' = << <<"ec_recover_slave", slave, ok>> >>
            ELSE /\ islost' = [islost EXCEPT ![slave] = FALSE]
                 /\ sup_calls' = <<>>
       ELSE /\ sup_calls' = <<>>
            /\ UNCHANGED islost
    /\ slave' = slave + 1
    /\ spc' = "slave"
    /\ UNCHANGED <<ctlLocals, expectedWKC, needlf, wkc, inOP, Statusword,
                   out_somanet_1, ec_slavecount, ec_state, group,
                   docheckstate, resumed, link, closed>>

\* lines 247 and 300-303: the loop is over; "all slaves resumed" is printed
\* when docheckstate is still clear; the pass sleeps and the next one begins
ecatcheck_end ==
    /\ pc # "exited"
    /\ spc = "slave"
    /\ slave > ec_slavecount
    /\ resumed' = IF ~docheckstate THEN resumed + 1 ELSE resumed
    /\ sup_calls' = <<>>
    /\ spc' = "check"
    /\ UNCHANGED <<ctlLocals, expectedWKC, needlf, wkc, inOP, Statusword,
                   out_somanet_1, tableVars, slave, link, closed>>

\* ------------------------------------------------------ specification
\* the globals are zero-initialised; main has created ecatcheck (line 315)
\* and is about to call simpletest
Init ==
    /\ pc = "start"
    /\ i = 0 /\ j = 0 /\ chk = 0
    /\ expectedWKC = 0 /\ needlf = FALSE /\ wkc = 0 /\ inOP = FALSE
    /\ Statusword = 0
    /\ out_somanet_1 = ZeroCommand
    /\ ec_slavecount = 0
    /\ ec_state = [k \in 0..MaxSlaves |-> EC_STATE_NONE]
    /\ islost = [k \in Slaves |-> FALSE]
    /\ group = [k \in Slaves |-> 0]
    /\ docheckstate = FALSE
    /\ spc = "check" /\ slave = 0
    /\ link = [k \in Slaves |-> EC_STATE_NONE]
    /\ closed = FALSE /\ attempts = 0 /\ lines = 0
    /\ ctl_log = <<>> /\ sup_calls = <<>> /\ wr = {} /\ resumed = 0
    /\ hist = <<>>

\* inputs of the concurrent specification
SpecWkc == {(OutputsWKC * 2) + InputsWKC - 1, (OutputsWKC * 2) + InputsWKC}
SpecStatus == {8, 39}
SpecLinks == {EC_STATE_NONE, EC_STATE_SAFE_OP, EC_STATE_OPERATIONAL}

Control ==
    \/ ct_start
    \/ \E n \in 0..MaxSlaves : \E lk \in BusStates(n, SpecLinks) : ct_config(n, lk)
    \/ ct_request_op
    \/ \E g \in SpecLinks : ct_wait(g)
    \/ \E lk \in BusStates(ec_slavecount, SpecLinks) : ct_op_check(lk)
    \/ \E w \in SpecWkc : \E sw \in SpecStatus : ct_exchange(w, sw)
    \/ ct_process
    \/ ct_loop_exit
    \/ ct_diag
    \/ ct_request_init
    \/ ct_close
    \/ main_return

Supervisor ==
    \/ ecatcheck_cond
    \/ \E lk \in BusStates(ec_slavecount, SpecLinks) : ecatcheck_begin(lk)
    \/ \E v \in SpecLinks : \E ok \in BOOLEAN : ecatcheck_slave(v, ok)
    \/ \E ok \in BOOLEAN : ecatcheck_lost(ok)
    \/ ecatcheck_end

Next == (Control \/ Supervisor) /\ UNCHANGED hist

Spec == Init /\ [][Next ]_vars

\* ------------------------------------------------- reading the steps
\* a step of simpletest: every one of them moves pc, i, chk or attempts
CtlStep == pc' # pc \/ i' # i \/ chk' # chk \/ attempts' # attempts
\* a step of ecatcheck (or no step at all): simpletest's locals stay
SupStep == UNCHANGED ctlLocals
\* one pass of the body of the cyclic loop
CycleStep == pc = "process" /\ pc' = "cyclic"

\* ------------------------------------------------------------ C2
\* C2: in the cyclic phase OpMode is assigned (to 9) on the cycle on which
\* the accepted-cycle counter j becomes 1 and on no other: not on a degraded
\* cycle, not on a later accepted cycle, and by no step outside the cycles;
\* j never decreases, so that cycle happens at most once.
C2_OpModeOnlyOnFirstAccepted ==
    [][ /\ CycleStep =>
             /\ ("OpMode" \in wr') <=> (j = 0 /\ j' = 1)
             /\ ("OpMode" \in wr') => (out_somanet_1'.OpMode = 9 /\ wkc >= expectedWKC)
        /\ ~CycleStep => out_somanet_1'.OpMode = out_somanet_1.OpMode
        /\ (pc \in {"cyclic", "process"}) => j' >= j ]_vars

\* a later accepted cycle has run and left the mode alone
C2_Witness ==
    /\ pc = "cyclic" /\ j = 3 /\ i = 5
    /\ out_somanet_1.OpMode = 9
    /\ "OpMode" \notin wr

\* ------------------------------------------------------------ C3
\* C3: a cycle whose working counter is below expectedWKC changes no field
\* of the drive command, does not count and prints no status line; a cycle
\* whose working counter equals expectedWKC counts and prints.
C3_DegradedCycleLeavesCommand ==
    [][ CycleStep =>
          /\ (wkc < expectedWKC) =>
                /\ out_somanet_1' = out_somanet_1
                /\ j' = j
                /\ lines' = lines
                /\ wr' = {}
          /\ (wkc = expectedWKC) => (j' = j + 1 /\ lines' = lines + 1) ]_vars

\* a degraded cycle after two accepted ones: the command written so far stays
C3_Witness ==
    /\ pc = "cyclic" /\ i = 4 /\ j = 2
    /\ wkc < expectedWKC
    /\ out_somanet_1.OpMode = 9
    /\ out_somanet_1.TargetVelocity = 100
    /\ wr = {}

\* ------------------------------------------------------------ C5
\* C5: a pass of ecatcheck goes on to a sweep only if, when it evaluates its
\* condition, inOP is TRUE and (wkc < expectedWKC or docheckstate is TRUE);
\* the evaluation itself, and so every pass that does not sweep, changes no
\* shared variable and calls nothing in the stack, and no sweep step is
\* reached except through that evaluation.
C5_SweepOnlyWhenWoken ==
    [][ /\ (spc = "check" /\ spc' = "sweep") =>
              (inOP = TRUE /\ (wkc < expectedWKC \/ docheckstate = TRUE))
        /\ (spc = "check" /\ SupStep) =>
              /\ spc' \in {"check", "sweep"}
              /\ sup_calls' = <<>>
              /\ UNCHANGED <<expectedWKC, needlf, wkc, inOP, Statusword,
                             out_somanet_1, tableVars, link, closed>>
        /\ (spc' \in {"slave", "lost"}) => (spc \in {"sweep", "slave", "lost"}) ]_vars

\* a sweep about to start that only docheckstate woke
C5_Witness ==
    /\ spc = "sweep" /\ inOP /\ docheckstate
    /\ wkc >= expectedWKC /\ pc = "cyclic"

\* ------------------------------------------------------------ C7
\* C7 as stated: when the operational wait is over its body has run at most
\* 200 times.
C7_AtMost200Attempts == (pc = "op_check") => (attempts <= 200)

\* C7 amended: the body of the wait runs at most 201 times (once, and again
\* for each of the 200 counts of chk), and exactly 201 times when the wait
\* ends with the group not operational.
C7_AtMost201Attempts ==
    (pc = "op_check") =>
        /\ attempts <= 201
        /\ (ec_state[0] # EC_STATE_OPERATIONAL) => (attempts = 201 /\ chk = -1)

\* the wait is exhausted with the group still below operational
C7_Witness ==
    pc = "op_check" /\ attempts = 201 /\ ec_state[0] = EC_STATE_SAFE_OP

\* ------------------------------------------------------------ C8
\* the diagnostics the timeout path owes: one line per slave 1..ec_slavecount
\* whose state is not operational, in slave order
DiagLines ==
    SelectSeq([k \in 1..ec_slavecount |-> <<"printf_slave", k>>],
              LAMBDA e : ec_state[e[2]] # EC_STATE_OPERATIONAL)
\* simpletest went down the timeout path
TimedOut == ctl_log # <<>> /\ ctl_log[1] = <<"ec_readstate", 0>>
IsPrefix(a, b) == Len(a) <= Len(b) /\ a = SubSeq(b, 1, Len(a))

\* C8: when the wait ends with the group not operational, simpletest takes
\* the timeout path; on it inOP is never TRUE, no field of the drive command
\* is written, no cycle is counted and no working counter stored, and what
\* it does is, in this order: ec_readstate, one diagnostic line for each
\* slave 1..ec_slavecount that is not operational, the request of the init
\* state, ec_close.
C8_TimeoutPath ==
    /\ [][ (pc = "op_check" /\ pc' # pc /\ ec_state[0] # EC_STATE_OPERATIONAL)
              => (pc' = "diag" /\ TimedOut') ]_vars
    /\ [](TimedOut =>
            /\ inOP = FALSE /\ j = 0 /\ lines = 0 /\ wkc = 0
            /\ out_somanet_1 = ZeroCommand
            /\ IsPrefix(ctl_log, <<<<"ec_readstate", 0>>>> \o DiagLines
                                  \o <<<<"ec_writestate", 0>>, <<"ec_close", 0>>>>)
            /\ (pc \in {"request_init"}) =>
                   ctl_log = <<<<"ec_readstate", 0>>>> \o DiagLines
            /\ (pc \in {"end", "exited"}) =>
                   /\ ctl_log = <<<<"ec_readstate", 0>>>> \o DiagLines
                                 \o <<<<"ec_writestate", 0>>, <<"ec_close", 0>>>>
                   /\ closed /\ ec_state[0] = EC_STATE_INIT)

\* the timeout path run to its end with two slaves, only the second of
\* which is not operational
C8_Witness ==
    /\ pc = "exited" /\ TimedOut /\ ec_slavecount = 2
    /\ ec_state[1] = EC_STATE_OPERATIONAL /\ ec_state[2] = EC_STATE_SAFE_OP
    /\ ctl_log = <<<<"ec_readstate", 0>>, <<"printf_slave", 2>>,
                   <<"ec_writestate", 0>>, <<"ec_close", 0>>>>

\* ------------------------------------------------------------ C10
\* the phases of simpletest C10 names: the operational wait (from the
\* request of line 104 on), the cyclic phase, the shutdown
C10_Phases == {"request_op", "wait", "op_check", "cyclic", "process", "diag",
               "request_init", "close"}

\* C10 as stated: no step of simpletest in these phases writes the recorded
\* state or the lost flag of any entry of the slave table, entry 0 included.
C10_ControlNeverWritesTable ==
    [][ (CtlStep /\ pc \in C10_Phases) =>
            (ec_state' = ec_state /\ islost' = islost) ]_vars

\* C10 amended: simpletest never writes a lost flag; in the cyclic phase it
\* writes no entry of the table at all; outside it the only entries it writes
\* are the state of the group-wide entry 0 (the requests of lines 104 and
\* 212, the state check of the wait) and, on the timeout path alone, the
\* states ec_readstate refreshes.
C10_ControlWritesOnlyEntry0 ==
    [][ (CtlStep /\ pc \in C10_Phases) =>
            /\ islost' = islost
            /\ (pc \in {"cyclic", "process"}) => ec_state' = ec_state
            /\ (pc # "op_check") =>
                   \A k \in Slaves : ec_state'[k] = ec_state[k]
            /\ (pc = "op_check" /\ ec_state' # ec_state) => pc' = "diag" ]_vars

\* after a whole run through the cyclic phase entry 0 holds the init request
\* of line 212 while a slave entry still holds what the supervisor read
C10_Witness ==
    /\ pc = "exited" /\ j = 2 /\ ~TimedOut
    /\ ec_state[0] = EC_STATE_INIT
    /\ ec_state[1] = EC_STATE_SAFE_OP

\* ----------------------------------- the state machine on its own
\* Statusword is an int16; its 65536 bit patterns are 0 .. 2^16 - 1, and the
\* masks only look at bits 0-6, so the sign extension of & changes nothing
StatusWord16 == 0..(2^16 - 1)

\* simpletest in the cyclic loop, an accepted exchange just received with an
\* arbitrary status word: before the first accepted cycle, or after one that
\* saw "switched on"
InitDSM ==
    /\ pc = "process"
    /\ Statusword \in StatusWord16
    /\ \/ /\ i = 1 /\ j = 0 /\ lines = 0 /\ needlf = FALSE
          /\ out_somanet_1 = ZeroCommand
       \/ /\ i = 2 /\ j = 1 /\ lines = 1 /\ needlf = TRUE
          /\ out_somanet_1 = [ZeroCommand EXCEPT !.OpMode = OpModeCSV,
                                                  !.Controlword = CwEnableOperation]
    /\ chk = 0
    /\ expectedWKC = (OutputsWKC * 2) + InputsWKC
    /\ wkc = expectedWKC
    /\ inOP = TRUE
    /\ ec_slavecount = 1
    /\ ec_state = [k \in 0..MaxSlaves |->
                     IF k <= 1 THEN EC_STATE_OPERATIONAL ELSE EC_STATE_NONE]
    /\ islost = [k \in Slaves |-> FALSE]
    /\ group = [k \in Slaves |-> 0]
    /\ docheckstate = FALSE
    /\ spc = "check" /\ slave = 0
    /\ link = [k \in Slaves |->
                 IF k <= 1 THEN EC_STATE_OPERATIONAL ELSE EC_STATE_NONE]
    /\ closed = FALSE /\ attempts = 0
    /\ ctl_log = <<>> /\ sup_calls = <<>> /\ wr = {} /\ resumed = 0
    /\ hist = <<>>

NextDSM == ct_process /\ UNCHANGED hist

SpecDSM == InitDSM /\ [][NextDSM ]_vars

\* ------------------------------------------------------------ C1
RECURSIVE FromHex(_)
\* the value of a hexadecimal numeral, most significant digit first
FromHex(ds) ==
    IF ds = <<>> THEN 0
    ELSE 16 * FromHex(SubSeq(ds, 1, Len(ds) - 1)) + ds[Len(ds)]
\* bit b of x
Bit(x, b) == (x \div (2^b)) % 2
\* the ordered rules of the claim, written as the claim writes them
C1_Rules ==
    << [mask |-> FromHex(<<0,0,4,15>>), pat |-> FromHex(<<0,0,0,8>>),
        field |-> "Controlword", val |-> FromHex(<<0,0,8,0>>)],
       [mask |-> FromHex(<<0,0,4,15>>), pat |-> FromHex(<<0,0,4,0>>),
        field |-> "Controlword", val |-> FromHex(<<0,0,0,6>>)],
       [mask |-> FromHex(<<0,0,6,15>>), pat |-> FromHex(<<0,0,2,1>>),
        field |-> "Controlword", val |-> FromHex(<<0,0,0,7>>)],
       [mask |-> FromHex(<<0,0,6,15>>), pat |-> FromHex(<<0,0,2,3>>),
        field |-> "Controlword", val |-> FromHex(<<0,0,0,15>>)],
       [mask |-> FromHex(<<0,0,6,15>>), pat |-> FromHex(<<0,0,2,7>>),
        field |-> "TargetVelocity", val |-> 100] >>
\* (sw & mask) == pat, bit by bit
C1_Matches(sw, r) ==
    \A b \in 0..15 :
        Bit(r.pat, b) = (IF Bit(r.mask, b) = 1 THEN Bit(sw, b) ELSE 0)
\* the first rule sw matches, 0 when it matches none
C1_First(sw) ==
    IF \E k \in 1..5 : C1_Matches(sw, C1_Rules[k])
    THEN Min({k \in 1..5 : C1_Matches(sw, C1_Rules[k])})
    ELSE 0

\* C1: for every 16-bit status word an accepted cycle makes the assignment of
\* the first rule of the ordered list that the status word matches, and only
\* that one; when no rule matches, Controlword and TargetVelocity keep their
\* values.
C1_FirstMatchingRule ==
    [][ (CycleStep /\ wkc >= expectedWKC) =>
          LET k == C1_First(Statusword)
              cw == IF k \in 1..4 THEN C1_Rules[k].val
                    ELSE out_somanet_1.Controlword
              tv == IF k = 5 THEN C1_Rules[k].val
                    ELSE out_somanet_1.TargetVelocity
          IN /\ out_somanet_1'.Controlword = cw
             /\ out_somanet_1'.TargetVelocity = tv
             /\ wr' \ {"OpMode"} = IF k = 0 THEN {} ELSE {C1_Rules[k].field}
             /\ \A f \in DOMAIN out_somanet_1 :
                   f \notin {"Controlword", "TargetVelocity", "OpMode"}
                      => out_somanet_1'[f] = out_somanet_1[f] ]_vars

\* an accepted cycle has applied the third rule to a status word that has
\* other bits set as well (0x0231: ready to switch on, remote, voltage)
C1_Witness ==
    /\ pc = "cyclic" /\ j = 2
    /\ Statusword = FromHex(<<0,2,3,1>>)
    /\ out_somanet_1.Controlword = 7
    /\ wr = {"Controlword"}

\* ------------------------------------------ the supervisor on its own
\* The bus does not change: every read of the stack returns link.  simpletest
\* stands in the cyclic loop between two cycles, after a degraded first
\* cycle or after an accepted one that saw "operation enabled"; the table
\* is as an earlier sweep can have left it.
Table == [state |-> ec_state, lost |-> islost, doc |-> docheckstate]

InitSweep ==
    /\ pc = "cyclic" /\ i = 2 /\ chk = 0
    /\ expectedWKC = (OutputsWKC * 2) + InputsWKC
    /\ inOP = TRUE
    /\ \/ /\ wkc = expectedWKC - 1 /\ j = 0 /\ lines = 0 /\ needlf = FALSE
          /\ Statusword = 0 /\ out_somanet_1 = ZeroCommand /\ wr = {}
       \/ /\ wkc = expectedWKC /\ j = 1 /\ lines = 1 /\ needlf = TRUE
          /\ Statusword = PatOperationEnabled
          /\ out_somanet_1 = [ZeroCommand EXCEPT !.OpMode = OpModeCSV,
                                                  !.TargetVelocity = NominalVelocity]
          /\ wr = {"OpMode", "TargetVelocity"}
    /\ ec_slavecount \in 1..MaxSlaves
    /\ link \in BusStates(ec_slavecount, LinkStates)
    /\ islost \in {l \in [Slaves -> BOOLEAN] :
                      \A s \in Slaves : s > ec_slavecount => ~l[s]}
    /\ ec_state = ec_readstate([k \in 0..MaxSlaves |-> EC_STATE_NONE],
                               [s \in Slaves |-> IF islost[s] \/ s > ec_slavecount
                                                 THEN EC_STATE_NONE
                                                 ELSE EC_STATE_OPERATIONAL],
                               ec_slavecount)
    /\ group = [k \in Slaves |-> 0]
    /\ docheckstate \in BOOLEAN
    /\ spc = "check" /\ slave = 0
    /\ closed = FALSE /\ attempts = 0
    /\ ctl_log = <<>> /\ sup_calls = <<>> /\ resumed = 0
    /\ hist = [seen |-> {}, ok |-> TRUE, ended |-> 0, tab1 |-> <<>>, tab2 |-> <<>>]

SupervisorFrozen ==
    \/ ecatcheck_cond
    \/ ecatcheck_begin(link)
    \/ \E ok \in BOOLEAN : ecatcheck_slave(link[slave], ok)
    \/ \E ok \in BOOLEAN : ecatcheck_lost(ok)
    \/ ecatcheck_end

\* what is remembered across sweeps: the results reconfigure and recover
\* have returned (seen), whether a later call contradicted an earlier one
\* (ok), and the table at the end of the last two sweeps
HistNext ==
    LET res == {sup_calls'[n] : n \in 1..Len(sup_calls')}
        rr == {c \in res : c[1] \in {"ec_reconfig_slave", "ec_recover_slave"}}
        clash == \E c \in rr : \E d \in hist.seen :
                     c[1] = d[1] /\ c[2] = d[2] /\ c[3] # d[3]
        ended == spc = "slave" /\ spc' = "check"
    IN hist' = [seen |-> hist.seen \cup rr,
                ok |-> hist.ok /\ ~clash,
                ended |-> IF ended /\ hist.ended < 2 THEN hist.ended + 1
                          ELSE hist.ended,
                tab1 |-> IF ended THEN hist.tab2 ELSE hist.tab1,
                tab2 |-> IF ended THEN Table' ELSE hist.tab2]

NextSweep == SupervisorFrozen /\ HistNext

SpecSweep == InitSweep /\ [][NextSweep ]_vars

\* ------------------------------------------------------------ C6
\* C6: when two sweeps have run one after the other with the bus unchanged
\* and every reconfigure and recover call answering as it answered before
\* for the same slave, the recorded states, the lost flags and docheckstate
\* after the second sweep are those after the first.
C6_SweepIdempotent ==
    (hist.ok /\ hist.ended = 2) => hist.tab1 = hist.tab2

\* two such sweeps have run over a bus with a slave that does not answer and
\* cannot be recovered, and one in safe-op
C6_Witness ==
    /\ hist.ok /\ hist.ended = 2 /\ spc = "check"
    /\ ec_slavecount = 2
    /\ link[1] = EC_STATE_NONE /\ islost[1]
    /\ link[2] = EC_STATE_SAFE_OP /\ ec_state[2] = EC_STATE_OPERATIONAL
    /\ <<"ec_recover_slave", 1, FALSE>> \in hist.seen

\* ------------------------------------------------------------ C9
\* the stack calls through which ecatcheck reads and acts on the slaves
C9_StackCalls == {"ec_readstate", "ec_writestate", "ec_statecheck",
                  "ec_reconfig_slave", "ec_recover_slave"}

\* C9: no step of ecatcheck, on any branch of a sweep, changes a field of
\* the drive command; what it does to the slaves it does through stack
\* calls: read states, state request, state check, reconfigure, recover.
C9_SupervisorLeavesCommand ==
    [][ SupStep =>
          /\ out_somanet_1' = out_somanet_1
          /\ \A n \in 1..Len(sup_calls') : sup_calls'[n][1] \in C9_StackCalls ]_vars

\* a sweep has just tried to reconfigure a slave while the drive command
\* holds the mode and the velocity simpletest wrote
C9_Witness ==
    /\ sup_calls = << <<"ec_reconfig_slave", 1, FALSE>> >>
    /\ out_somanet_1.OpMode = OpModeCSV
    /\ out_somanet_1.TargetVelocity = NominalVelocity

\* ------------------------------- the cyclic loop against a drive that
\* follows the power-state profile
\* The drive of claim C4: five states, each reported by its status pattern
\* (other bits free), and one transition per control word received.
ProfileStates == {"fault", "switch_on_disabled", "ready_to_switch_on",
                  "switched_on", "operation_enabled"}
ProfileWord(st) ==
    CASE st = "fault" -> 8
      [] st = "switch_on_disabled" -> 64
      [] st = "ready_to_switch_on" -> 33
      [] st = "switched_on" -> 35
      [] st = "operation_enabled" -> 39
ProfileNext(st, cw) ==
    CASE st = "fault" /\ cw = 128 -> "switch_on_disabled"
      [] st = "switch_on_disabled" /\ cw = 6 -> "ready_to_switch_on"
      [] st = "ready_to_switch_on" /\ cw = 7 -> "switched_on"
      [] st = "switched_on" /\ cw = 15 -> "operation_enabled"
      [] OTHER -> st
\* status bits outside the masks: voltage enabled (bit 4), remote (bit 9)
ProfileExtraBits == {0, 16 + 512}

\* simpletest has just set inOP (line 122) and enters the cyclic loop
InitProfile ==
    /\ pc = "cyclic" /\ i = 1 /\ j = 0 /\ chk = 0
    /\ lines = 0 /\ needlf = FALSE
    /\ Statusword = 0 /\ out_somanet_1 = ZeroCommand /\ wr = {}
    /\ expectedWKC = (OutputsWKC * 2) + InputsWKC
    /\ wkc = 0
    /\ inOP = TRUE
    /\ ec_slavecount = 1
    /\ ec_state = [k \in 0..MaxSlaves |->
                     IF k <= 1 THEN EC_STATE_OPERATIONAL ELSE EC_STATE_NONE]
    /\ islost = [k \in Slaves |-> FALSE]
    /\ group = [k \in Slaves |-> 0]
    /\ docheckstate = FALSE
    /\ spc = "check" /\ slave = 0
    /\ link = [k \in Slaves |->
                 IF k <= 1 THEN EC_STATE_OPERATIONAL ELSE EC_STATE_NONE]
    /\ closed = FALSE /\ attempts = 0
    /\ ctl_log = <<>> /\ sup_calls = <<>> /\ resumed = 0
    /\ \E st \in ProfileStates : hist = [start |-> st, drive |-> st]

\* every exchange is accepted and reports the state the drive has taken on
\* the control word it was last sent
ControlProfile ==
    \/ \E x \in ProfileExtraBits :
          LET st == ProfileNext(hist.drive, out_somanet_1.Controlword)
          IN /\ ct_exchange(expectedWKC, ProfileWord(st) + x)
             /\ hist' = [hist EXCEPT !.drive = st]
    \/ ct_process /\ UNCHANGED hist
    \/ ct_loop_exit /\ UNCHANGED hist

\* ecatcheck runs beside it over a bus on which every slave is operational
NextProfile == ControlProfile \/ (SupervisorFrozen /\ UNCHANGED hist)

\* simpletest runs on its own thread: whatever ecatcheck does, it keeps
\* taking steps
SpecProfile == InitProfile /\ [][NextProfile ]_vars /\ WF_vars(ControlProfile)

\* ------------------------------------------------------------ C4
\* the cycles the walk takes from a profile state to the velocity command
C4_CyclesNeeded(st) ==
    CASE st = "fault" -> 5
      [] st = "switch_on_disabled" -> 4
      [] st = "ready_to_switch_on" -> 3
      [] st = "switched_on" -> 2
      [] st = "operation_enabled" -> 1
\* fault reset, shutdown, switch on, enable operation
C4_Order == <<128, 6, 7, 15>>

\* C4: with every cycle accepted and the drive following the profile, from
\* each of the five states the loop eventually sets TargetVelocity to 100
\* unless its iterations run out first, and the control word only ever
\* moves forward through fault reset, shutdown, switch on, enable operation.
C4_WalksProfileToVelocity ==
    /\ <>(out_somanet_1.TargetVelocity = 100
            \/ C4_CyclesNeeded(hist.start) > MaxCycles)
    /\ [][ out_somanet_1'.Controlword # out_somanet_1.Controlword =>
             \E n \in 1..4 :
                 /\ out_somanet_1'.Controlword = C4_Order[n]
                 /\ out_somanet_1.Controlword = (IF n = 1 THEN 0 ELSE C4_Order[n - 1])
                       \/ out_somanet_1.Controlword = 0 ]_vars
    /\ [](out_somanet_1.TargetVelocity = 100 => hist.drive = "operation_enabled")

\* the walk from "switch on disabled" has reached the velocity command
C4_Witness ==
    /\ hist.start = "switch_on_disabled"
    /\ hist.drive = "operation_enabled"
    /\ out_somanet_1.Controlword = 15
    /\ out_somanet_1.TargetVelocity = 100
    /\ j = 4

\* ------------------------------------- the whole program, observed
\* The two threads as in Spec, with a record of what has happened: the
\* passes of the cyclic loop completed (iters), how many of them had a
\* working counter of at least 2 * outputsWKC + inputsWKC (acc), whether
\* line 136 has stored a working counter yet (stored), and whether the
\* ec_readstate of the current sweep read a slave of the group that is not
\* operational (bad).
InitRun ==
    /\ pc = "start"
    /\ i = 0 /\ j = 0 /\ chk = 0
    /\ expectedWKC = 0 /\ needlf = FALSE /\ wkc = 0 /\ inOP = FALSE
    /\ Statusword = 0
    /\ out_somanet_1 = ZeroCommand
    /\ ec_slavecount = 0
    /\ ec_state = [k \in 0..MaxSlaves |-> EC_STATE_NONE]
    /\ islost = [k \in Slaves |-> FALSE]
    /\ group = [k \in Slaves |-> 0]
    /\ docheckstate = FALSE
    /\ spc = "check" /\ slave = 0
    /\ link = [k \in Slaves |-> EC_STATE_NONE]
    /\ closed = FALSE /\ attempts = 0 /\ lines = 0
    /\ ctl_log = <<>> /\ sup_calls = <<>> /\ wr = {} /\ resumed = 0
    /\ hist = [iters |-> 0, acc |-> 0, stored |-> FALSE, bad |-> FALSE]

HistRun ==
    hist' = [iters |-> IF CycleStep THEN hist.iters + 1 ELSE hist.iters,
             acc |-> IF CycleStep /\ wkc >= (2 * OutputsWKC) + InputsWKC
                     THEN hist.acc + 1 ELSE hist.acc,
             stored |-> hist.stored \/ (pc = "cyclic" /\ pc' = "process"),
             bad |-> IF spc = "sweep" /\ spc' = "slave"
                     THEN \E s \in 1..ec_slavecount :
                             /\ group[s] = currentgroup
                             /\ link'[s] # EC_STATE_OPERATIONAL
                     ELSE hist.bad]

ControlRun == Control /\ HistRun
SupervisorRun == Supervisor /\ HistRun
NextRun == ControlRun \/ SupervisorRun

\* simpletest and ecatcheck are two threads of the operating system: neither
\* waits for the other, each keeps being scheduled
SpecRun == InitRun /\ [][NextRun ]_vars /\ WF_vars(ControlRun)

\* ------------------------------ the cyclic loop and what follows it
\* simpletest has just set inOP and j (lines 122-130) and enters the for
\* loop, every slave operational; ecatcheck runs beside it over a bus whose
\* slaves come and go.  The status word plays no part in the loop control
\* and is kept at "operation enabled".
InitLoop ==
    /\ pc = "cyclic" /\ i = 1 /\ j = 0 /\ chk = 0
    /\ lines = 0 /\ needlf = FALSE
    /\ Statusword = 0 /\ out_somanet_1 = ZeroCommand /\ wr = {}
    /\ expectedWKC = (OutputsWKC * 2) + InputsWKC
    /\ wkc = 0
    /\ inOP = TRUE
    /\ ec_slavecount \in 1..MaxSlaves
    /\ ec_state = [k \in 0..MaxSlaves |->
                     IF k <= ec_slavecount THEN EC_STATE_OPERATIONAL
                     ELSE EC_STATE_NONE]
    /\ islost = [k \in Slaves |-> FALSE]
    /\ group = [k \in Slaves |-> 0]
    /\ docheckstate = FALSE
    /\ spc = "check" /\ slave = 0
    /\ link = [k \in Slaves |->
                 IF k <= ec_slavecount THEN EC_STATE_OPERATIONAL
                 ELSE EC_STATE_NONE]
    /\ closed = FALSE /\ attempts = 0
    /\ ctl_log = <<>> /\ sup_calls = <<>> /\ resumed = 0
    /\ hist = [iters |-> 0, acc |-> 0, stored |-> FALSE, bad |-> FALSE]

ControlLoop ==
    /\ \/ \E w \in SpecWkc : ct_exchange(w, PatOperationEnabled)
       \/ ct_process
       \/ ct_loop_exit
       \/ ct_request_init
       \/ ct_close
       \/ main_return
    /\ HistRun

NextLoop == ControlLoop \/ SupervisorRun

\* simpletest and ecatcheck are two threads of the operating system:
\* simpletest takes no lock and waits for nothing ecatcheck does, so it
\* keeps being scheduled
SpecLoop == InitLoop /\ [][NextLoop]_vars /\ WF_vars(ControlLoop)

\* ------------------------------------------------------------ C11
\* C11: once simpletest is in the cyclic loop it leaves it, whatever the
\* working counters are and whatever ecatcheck does meanwhile, and only
\* after the full number of passes, degraded or not; it then clears inOP,
\* requests the init state and closes the stack.
C11_LoopRunsToItsBound ==
    /\ (pc = "cyclic" /\ inOP) ~>
          (pc = "end" /\ closed /\ ~inOP /\ hist.iters = MaxCycles
              /\ ctl_log = <<<<"ec_writestate", 0>>, <<"ec_close", 0>>>>)
    /\ [][ (pc \in {"cyclic", "process"} /\ pc' \notin {"cyclic", "process"}) =>
             /\ hist.iters = MaxCycles /\ i = MaxCycles + 1
             /\ inOP /\ ~inOP' /\ pc' = "request_init" ]_vars
    /\ [][ (CycleStep /\ wkc < expectedWKC) =>
             (pc' = "cyclic" /\ inOP' /\ hist'.iters = hist.iters + 1) ]_vars

\* the loop has ended after nothing but degraded cycles, with ecatcheck in
\* the middle of a sweep
C11_Witness ==
    /\ pc = "end" /\ closed /\ hist.iters = MaxCycles /\ hist.acc = 0
    /\ spc = "lost"

\* ------------------------------------------------------------ C12
\* C12: expectedWKC is 2 * outputsWKC + inputsWKC from line 102 on and never
\* changes (7 for 2 and 3, so that a working counter of 6 is degraded); in
\* the cyclic phase, between two passes, j is the number of passes so far
\* whose working counter was at least expectedWKC, j is at most the number
\* of passes, which is i - 1, and as many status lines were printed; j
\* never decreases.
C12_CounterCountsAccepted ==
    /\ [](pc \in {"wait", "op_check", "cyclic", "process", "diag", "request_init"} =>
            /\ expectedWKC = (2 * OutputsWKC) + InputsWKC
            /\ (OutputsWKC = 2 /\ InputsWKC = 3) => expectedWKC = 7)
    /\ [][ (pc \notin {"start", "config", "request_op"}) =>
            expectedWKC' = expectedWKC ]_vars
    /\ [](pc = "cyclic" =>
            /\ j = hist.acc
            /\ hist.iters = i - 1
            /\ j <= i
            /\ lines = j)
    /\ [](pc = "process" => (j <= i /\ lines = j))
    /\ [][ (pc \in {"cyclic", "process"}) => j' >= j ]_vars
    /\ [][ (CycleStep /\ OutputsWKC = 2 /\ InputsWKC = 3 /\ wkc = 6) => j' = j ]_vars

\* two accepted passes and two degraded ones
C12_Witness ==
    /\ pc = "cyclic" /\ i = 5 /\ j = 2 /\ hist.acc = 2 /\ hist.iters = 4
    /\ lines = 2 /\ wkc < expectedWKC

\* ------------------------------------------------------------ C13
\* the first if of the loop body has just run for a slave of the group
\* whose refreshed state is not operational
C13_Handled ==
    /\ spc = "slave" /\ spc' = "lost"
    /\ group[slave] = currentgroup
    /\ ec_state[slave] # EC_STATE_OPERATIONAL
\* what it did for the four states the claim names
C13_Common ==
    /\ C13_Handled =>
          /\ docheckstate'
          /\ (ec_state[slave] = EC_STATE_SAFE_OP + EC_STATE_ERROR) =>
                /\ sup_calls' = << <<"ec_writestate", slave, TRUE>> >>
                /\ ec_state'[slave] = EC_STATE_SAFE_OP + EC_STATE_ACK
          /\ (ec_state[slave] = EC_STATE_SAFE_OP) =>
                /\ sup_calls' = << <<"ec_writestate", slave, TRUE>> >>
                /\ ec_state'[slave] = EC_STATE_OPERATIONAL
          /\ (ec_state[slave] = EC_STATE_NONE /\ ~islost[slave]) =>
                /\ sup_calls' = << <<"ec_statecheck", slave, TRUE>> >>
                /\ islost'[slave] = (ec_state'[slave] = EC_STATE_NONE)
          /\ \A ok \in BOOLEAN :
                (sup_calls' = << <<"ec_reconfig_slave", slave, ok>> >>) =>
                    islost'[slave] = (islost[slave] /\ ~ok)
    /\ (spc \in {"slave", "lost"} /\ spc' # spc /\ slave <= ec_slavecount
          /\ ec_state[slave] = EC_STATE_OPERATIONAL /\ ~islost[slave]) =>
             sup_calls' = <<>>

\* C13 as stated: besides the above, the slave is reconfigured exactly when
\* its state is above none and below safe-op + error (and not safe-op), and
\* one of the four actions is always taken.
C13_ReconfigureBelowError ==
    [][ /\ C13_Common
        /\ C13_Handled =>
              /\ Len(sup_calls') = 1
              /\ (\E ok \in BOOLEAN :
                     sup_calls' = << <<"ec_reconfig_slave", slave, ok>> >>)
                 <=> /\ ec_state[slave] > EC_STATE_NONE
                     /\ ec_state[slave] < EC_STATE_SAFE_OP + EC_STATE_ERROR
                     /\ ec_state[slave] # EC_STATE_SAFE_OP ]_vars

\* C13 amended: the slave is reconfigured exactly when its state is any
\* state above none other than safe-op and safe-op + error, the states
\* above safe-op + error included; a slave in state none that is already
\* marked lost gets none of the four actions, every other one exactly one.
C13_ReconfigureAboveNone ==
    [][ /\ C13_Common
        /\ C13_Handled =>
              /\ Len(sup_calls') =
                    (IF ec_state[slave] = EC_STATE_NONE /\ islost[slave]
                     THEN 0 ELSE 1)
              /\ (\E ok \in BOOLEAN :
                     sup_calls' = << <<"ec_reconfig_slave", slave, ok>> >>)
                 <=> /\ ec_state[slave] > EC_STATE_NONE
                     /\ ec_state[slave] # EC_STATE_SAFE_OP + EC_STATE_ERROR
                     /\ ec_state[slave] # EC_STATE_SAFE_OP ]_vars

\* a slave that reports operational + error has just been reconfigured
C13_Witness ==
    /\ spc = "lost" /\ slave = 1
    /\ ec_state[1] = EC_STATE_OPERATIONAL + EC_STATE_ERROR
    /\ sup_calls = << <<"ec_reconfig_slave", 1, TRUE>> >>
    /\ docheckstate

C15_RecheckIffNotOperational ==
    [][ /\ (spc = "slave" /\ spc' = "check") =>
              /\ docheckstate = hist.bad
              /\ docheckstate' = docheckstate
              /\ resumed = 0
              /\ resumed' = (IF hist.bad THEN 0 ELSE 1)
        /\ (resumed' # resumed) =>
              \/ spc = "slave" /\ spc' = "check"
              \/ spc = "sweep" /\ resumed' = 0 ]_vars

\* a sweep woken by a degraded cycle found every slave operational and said so
C15_Witness ==
    /\ spc = "check" /\ resumed = 1 /\ ~docheckstate /\ ~hist.bad
    /\ ec_slavecount = 2 /\ inOP /\ hist.stored
    /\ sup_calls = <<>>

\* ------------------- the supervisor on its own, running for ever
\* ecatcheck is a thread in while(1): it keeps taking steps
SpecSweepFair == InitSweep /\ [][NextSweep]_vars /\ WF_vars(NextSweep)

\* ------------------------------------------------------------ C16
\* a call of the sweep that acts on slave s
C16_ActsOn(s) ==
    /\ Len(sup_calls) = 1
    /\ sup_calls[1][2] = s
    /\ sup_calls[1][1] \in {"ec_writestate", "ec_reconfig_slave",
                            "ec_statecheck", "ec_recover_slave"}
\* slave s is on the bus of the group and not operational
C16_Down(s) ==
    s <= ec_slavecount /\ group[s] = currentgroup
       /\ link[s] # EC_STATE_OPERATIONAL

\* C16: with inOP TRUE and a slave of the group staying not operational,
\* once a sweep has met it every later pass of ecatcheck sweeps again and
\* acts on that slave again, without end and whatever the reconfigure and
\* recover calls return; a failed call changes nothing simpletest owns
\* and the sweep goes on to the next slave.
C16_RetriesForEver ==
    /\ [][ (spc = "check" /\ inOP /\ hist.ended >= 1
               /\ \E s \in Slaves : C16_Down(s)) => spc' = "sweep" ]_vars
    /\ \A s \in Slaves :
          [](C16_Down(s) /\ hist.ended >= 1 => <>C16_ActsOn(s))
    /\ [][ (\E s \in Slaves : \E c \in {"ec_reconfig_slave", "ec_recover_slave"} :
                sup_calls' = << <<c, s, FALSE>> >>) =>
             /\ UNCHANGED <<ctlLocals, inOP, wkc, expectedWKC, out_somanet_1,
                            closed>>
             /\ spc' \in {"lost", "slave"} ]_vars

\* a third sweep in a row tries to recover a slave whose recovery has
\* failed before
C16_Witness ==
    /\ hist.ended = 2 /\ inOP
    /\ <<"ec_recover_slave", 1, FALSE>> \in hist.seen
    /\ spc = "slave" /\ slave = 2
    /\ sup_calls = << <<"ec_recover_slave", 1, FALSE>> >>
    /\ islost[1] /\ link[1] = EC_STATE_NONE

\* ------------------------------------------------------------ C17
\* the fields of the drive command a step changes
C17_Changed == {f \in DOMAIN out_somanet_1 : out_somanet_1'[f] # out_somanet_1[f]}
\* the field the first rule matched by sw assigns, if any
C17_RuleField(sw) ==
    IF C1_First(sw) = 0 THEN {} ELSE {C1_Rules[C1_First(sw)].field}

\* C17 as stated: the first accepted cycle assigns the mode and nothing
\* else; Controlword and TargetVelocity are assigned only on accepted
\* cycles after it.
C17_FirstCycleOnlyMode ==
    [][ (CycleStep /\ wkc >= expectedWKC) =>
          /\ (j = 0) => (wr' = {"OpMode"} /\ C17_Changed \subseteq {"OpMode"})
          /\ (wr' \cap {"Controlword", "TargetVelocity"} # {}) => j >= 1 ]_vars

\* C17 amended: the first accepted cycle assigns the mode and also runs the
\* rules on the status word, as every accepted cycle does: it assigns
\* OpMode and the field of the first matching rule, if there is one, and
\* no other field; a later accepted cycle assigns the field of the first
\* matching rule only.
C17_FirstCycleModeAndRules ==
    [][ (CycleStep /\ wkc >= expectedWKC) =>
          /\ wr' = (IF j = 0 THEN {"OpMode"} ELSE {}) \cup C17_RuleField(Statusword)
          /\ C17_Changed \subseteq wr'
          /\ (j = 0) => out_somanet_1'.OpMode = 9
          /\ (C1_First(Statusword) # 0) =>
                out_somanet_1'[C1_Rules[C1_First(Statusword)].field]
                    = C1_Rules[C1_First(Statusword)].val ]_vars

\* the first accepted cycle saw a fault and wrote the mode and the fault
\* reset at once
C17_Witness ==
    /\ pc = "cyclic" /\ i = 2 /\ j = 1
    /\ Statusword = 8
    /\ wr = {"OpMode", "Controlword"}
    /\ out_somanet_1.OpMode = 9 /\ out_somanet_1.Controlword = 128

\* ------------------------------------------------------------ C18
\* the five conditions of lines 159-175 on a status word, each on its own
C18_Conds(sw) ==
    << BitAnd(sw, MaskFault) = PatFault,
       BitAnd(sw, MaskSwitchOnDisabled) = PatSwitchOnDisabled,
       BitAnd(sw, MaskReadyToSwitchOn) = PatReadyToSwitchOn,
       BitAnd(sw, MaskSwitchedOn) = PatSwitchedOn,
       BitAnd(sw, MaskOperationEnabled) = PatOperationEnabled >>
\* what each of them assigns
C18_Assigns ==
    << [field |-> "Controlword", val |-> CwFaultReset],
       [field |-> "Controlword", val |-> CwShutdown],
       [field |-> "Controlword", val |-> CwSwitchOn],
       [field |-> "Controlword", val |-> CwEnableOperation],
       [field |-> "TargetVelocity", val |-> NominalVelocity] >>

\* C18: no 16-bit status word satisfies two of the five conditions, so an
\* accepted cycle makes the assignment of every condition its status word
\* satisfies, wherever that condition stands in the chain.
C18_RulesDisjoint ==
    /\ [](Cardinality({k \in 1..5 : C18_Conds(Statusword)[k]}) <= 1)
    /\ [][ (CycleStep /\ wkc >= expectedWKC) =>
             \A k \in 1..5 :
                 C18_Conds(Statusword)[k] =>
                    /\ out_somanet_1'[C18_Assigns[k].field] = C18_Assigns[k].val
                    /\ C18_Assigns[k].field \in wr' ]_vars

\* the last condition of the chain has applied to a status word with bits
\* outside the masks set (0x0637)
C18_Witness ==
    /\ pc = "cyclic" /\ j = 2
    /\ Statusword = FromHex(<<0,6,3,7>>)
    /\ C18_Conds(Statusword)[5]
    /\ out_somanet_1.TargetVelocity = NominalVelocity
    /\ wr = {"TargetVelocity"}

\* ------------------------------------------------------------ C19
\* C19: every step of ecatcheck that calls the stack or writes the slave
\* table is taken while inOP is TRUE, and so before simpletest has cleared
\* inOP, requested the init state or closed the stack.
C19_AccessOnlyWhileInOP ==
    [][ (SupStep /\ spc \in {"sweep", "slave", "lost"}
           /\ (sup_calls' # <<>> \/ ec_state' # ec_state \/ islost' # islost))
        => (inOP /\ ~closed /\ pc \in {"cyclic", "process"}) ]_vars

\* ------------------------------------------------------------ C20
\* C20: when a pass of ecatcheck goes on to a sweep with docheckstate FALSE,
\* the wkc it compared was stored by an exchange of the cyclic loop (line
\* 136) and is below expectedWKC; no sweep starts after inOP = TRUE and
\* before the first such exchange.
C20_SweepOnStoredCounter ==
    [][ (spc = "check" /\ spc' = "sweep") =>
          /\ hist.stored
          /\ ~docheckstate => wkc < expectedWKC ]_vars
====
